---- MODULE Spec2Model ----
(***************************************************************************)
(* examples/inference/bench_llama.py: the benchmark driver of the          *)
(* tensor-parallel inference engine.                                       *)
(*                                                                         *)
(*   print_perf_stats  (lines 18-33)  a pure function of its arguments     *)
(*   run_llama_test    (lines 36-78)  one worker's benchmark routine       *)
(*   check_llama       (lines 81-84)  a worker: launch, then the routine   *)
(*   test_llama        (lines 87-90)  spawn of the workers, rerun on       *)
(*                                    "address already in use"             *)
(*                                                                         *)
(* Python floats are modelled by exact rationals <<n, d>> (d > 0, lowest   *)
(* terms); the rounding of IEEE doubles and the rendering of a number to   *)
(* text by str.format are not modelled: a printed line is recorded as the  *)
(* value handed to format and the power of ten it was divided by.          *)
(***************************************************************************)
EXTENDS Integers, Sequences, FiniteSets, TLC

VARIABLES
    stats_in,    \* arguments of a direct call of print_perf_stats
    stats_out,   \* what that call did
    args,        \* the parsed command line (lines 94-101)
    main,        \* the parent process: where it is in test_llama
    durations,   \* the times a generate and a synchronize of this run may take
    raised,      \* the exception that last left spawn, "" when none
    proc         \* the worker processes of the current attempt, by rank

vars == <<stats_in, stats_out, args, main, durations, raised, proc>>

-----------------------------------------------------------------------------
(* Bounds of the model. *)

MaxLen == 4        \* longest latency list handed to print_perf_stats directly
MaxWarmup == 3     \* largest warmup handed to print_perf_stats directly
MaxBs == 2         \* largest batch size handed to print_perf_stats directly
MaxElapsed == 1    \* longest duration of one generate call, in clock ticks
MaxSync == 1       \* longest duration of one synchronize call, in clock ticks

(* Program constants. *)

iters == 10
num_bytes == 2
warmup_default == 3

-----------------------------------------------------------------------------
(* Exact rational arithmetic standing for Python's float arithmetic. *)

Abs(x) == IF x < 0 THEN -x ELSE x

RECURSIVE GCD(_, _)
GCD(a, b) == IF b = 0 THEN a ELSE GCD(b, a % b)

RNorm(n, d) ==
    LET g == GCD(Abs(n), Abs(d))
        s == IF d < 0 THEN -1 ELSE 1
    IN  <<(s * n) \div g, (s * d) \div g>>

RInt(n) == <<n, 1>>
RAdd(x, y) == RNorm(x[1] * y[2] + y[1] * x[2], x[2] * y[2])
RMul(x, y) == RNorm(x[1] * y[1], x[2] * y[2])
RDiv(x, y) == RNorm(x[1] * y[2], x[2] * y[1])      \* y # 0: the callers test it
RLess(x, y) == x[1] * y[2] < y[1] * x[2]
RZero == RInt(0)

(* sum(xs): Python's sum folds from the left, starting at 0. *)
RECURSIVE SumFrom(_, _, _)
SumFrom(xs, k, acc) ==
    IF k > Len(xs) THEN acc ELSE SumFrom(xs, k + 1, RAdd(acc, xs[k]))

sum(xs) == SumFrom(xs, 1, RZero)

(* list.sort(): ascending and stable; written as an insertion sort. *)
RECURSIVE Insert(_, _)
Insert(sorted, x) ==
    IF sorted = <<>> THEN <<x>>
    ELSE IF RLess(x, Head(sorted)) THEN <<x>> \o sorted
    ELSE <<Head(sorted)>> \o Insert(Tail(sorted), x)

RECURSIVE SortFrom(_, _, _)
SortFrom(xs, k, acc) ==
    IF k > Len(xs) THEN acc ELSE SortFrom(xs, k + 1, Insert(acc, xs[k]))

sort(xs) == SortFrom(xs, 1, <<>>)

(* xs[w:]: Python's slice with an open end. A negative w counts from the   *)
(* end of the list, and a start beyond either end is clamped.              *)
SliceFrom(xs, w) ==
    LET n == Len(xs)
        lo == IF w >= 0 THEN (IF w > n THEN n ELSE w)
              ELSE (IF n + w < 0 THEN 0 ELSE n + w)
    IN  SubSeq(xs, lo + 1, n)

-----------------------------------------------------------------------------
(* print_perf_stats(latency_set, config, bs, warmup=3), lines 18-33.       *)
(* config is a function from the attribute names the object has to their   *)
(* values. The result records what the call did: how it ended, the lines   *)
(* it printed, the local latency_set and count at its end, the mean, and   *)
(* whether it read config.                                                 *)

HasAttr(config, a) == a \in DOMAIN config

Line(label, value, exp10) == [label |-> label, value |-> value, exp10 |-> exp10]

NoStats ==
    [status |-> "not_called", lines |-> <<>>, latency_set |-> <<>>,
     count |-> 0, avg |-> RZero, config_read |-> FALSE]

(* Mutants of the trim: the list sorted before it is trimmed; no trim. *)
TrimWarmupSorted(latency_set, warmup) == SliceFrom(sort(latency_set), warmup)

TrimWarmupNone(latency_set, warmup) == latency_set

TrimWarmup(latency_set, warmup) == SliceFrom(latency_set, warmup)    \* line 21

(* Mutant: the num_layers attribute is ignored. *)
NumLayersHidden(config) == config["num_hidden_layers"]

NumLayers(config) ==                                                 \* line 27
    IF HasAttr(config, "num_layers") THEN config["num_layers"]
    ELSE config["num_hidden_layers"]

NumParameters(config) ==                                             \* line 28
    NumLayers(config) * config["hidden_size"] * config["hidden_size"] * 12

(* Mutant: the bytes per parameter are left out. *)
BandwidthNoBytes(avg, config) ==
    RMul(RDiv(RInt(1), avg), RInt(NumParameters(config)))

Bandwidth(avg, config) ==                                            \* line 32
    RMul(RMul(RDiv(RInt(1), avg), RInt(NumParameters(config))), RInt(num_bytes))

Flops(avg, config, bs) ==                                            \* line 33
    RMul(RMul(RMul(RDiv(RInt(1), avg), RInt(NumParameters(config))),
              RInt(num_bytes)), RInt(bs))

print_perf_stats(latency_set, config, bs, warmup) ==
    LET trimmed == TrimWarmup(latency_set, warmup)
        count == Len(trimmed)
    IN  IF count > 0
        THEN
            LET sorted == sort(trimmed)                              \* line 25
                avg == RDiv(sum(sorted), RInt(count))                \* line 26
                base == [NoStats EXCEPT !.latency_set = sorted, !.count = count,
                                        !.avg = avg, !.config_read = TRUE]
                line1 == Line("Avg Per Token Latency", RMul(avg, RInt(1000)), 0)
                line2 == Line("Avg BW", Bandwidth(avg, config), 9)
                line3 == Line("Avg flops", Flops(avg, config, bs), 12)
            IN  \* line 27: getattr's default argument is evaluated before the
                \* call, so config.num_hidden_layers is read in every case.
                IF ~HasAttr(config, "num_hidden_layers")
                THEN [base EXCEPT !.status = "AttributeError"]
                ELSE IF ~HasAttr(config, "hidden_size")              \* line 28
                THEN [base EXCEPT !.status = "AttributeError"]
                ELSE IF avg = RZero                                  \* line 32: 1 / avg
                THEN [base EXCEPT !.status = "ZeroDivisionError",
                                  !.lines = <<line1>>]
                ELSE [base EXCEPT !.status = "returned",
                                  !.lines = <<line1, line2, line3>>]
        ELSE [NoStats EXCEPT !.status = "returned", !.latency_set = trimmed]

-----------------------------------------------------------------------------
(* Direct calls of print_perf_stats (the module's other entry point): the *)
(* arguments are drawn from bounded sets, the one action applies the       *)
(* function.                                                               *)

Samples == {<<0, 1>>, <<1, 2>>, <<1, 1>>, <<3, 1>>}

RECURSIVE ListsUpTo(_)
ListsUpTo(n) ==
    IF n = 0 THEN {<<>>}
    ELSE LET shorter == ListsUpTo(n - 1)
         IN  shorter \cup {Append(xs, x) : xs \in {ys \in shorter : Len(ys) = n - 1},
                                           x \in Samples}

Configs ==
    { [num_hidden_layers |-> 2, hidden_size |-> 3],
      [num_layers |-> 1, num_hidden_layers |-> 2, hidden_size |-> 3],
      [num_layers |-> 1, hidden_size |-> 3],
      [num_hidden_layers |-> 2] }

NoConfig == [a \in {} |-> 0]

NoCall == [latency_set |-> <<>>, config |-> NoConfig, bs |-> 0, warmup |-> 0]

StatsInputs ==
    [latency_set : ListsUpTo(MaxLen), config : Configs,
     bs : 1..MaxBs, warmup : (-1)..MaxWarmup]

NoArgs == [path |-> "", tp_size |-> 0, batch_size |-> 0, input_len |-> 0, output_len |-> 0]

NoProcs == [r \in {} |-> 0]

InitStats ==
    /\ stats_in \in StatsInputs
    /\ stats_out = NoStats
    /\ args = NoArgs
    /\ main = "idle"
    /\ durations = [generate |-> {}, synchronize |-> {}]
    /\ raised = ""
    /\ proc = NoProcs

CallStats ==
    /\ main = "idle"
    /\ stats_out.status = "not_called"
    /\ stats_out' = print_perf_stats(stats_in.latency_set, stats_in.config,
                                     stats_in.bs, stats_in.warmup)
    /\ UNCHANGED <<stats_in, args, main, durations, raised, proc>>

-----------------------------------------------------------------------------
(* The benchmark run: python bench_llama.py -p PATH -tp N -b B             *)
(* --input_len I --output_len O, lines 93-103.                             *)

(* The command lines explored. *)
ArgSpace ==
    { [path |-> "llama", tp_size |-> 1, batch_size |-> 1, input_len |-> 1, output_len |-> 1],
      [path |-> "llama", tp_size |-> 1, batch_size |-> 2, input_len |-> 2, output_len |-> 2],
      [path |-> "llama", tp_size |-> 2, batch_size |-> 2, input_len |-> 1, output_len |-> 1],
      [path |-> "llama", tp_size |-> 0, batch_size |-> 1, input_len |-> 1, output_len |-> 1],
      [path |-> "llama", tp_size |-> 1, batch_size |-> 1, input_len |-> 1, output_len |-> 0],
      [path |-> "missing", tp_size |-> 1, batch_size |-> 1, input_len |-> 1, output_len |-> 1] }

PathExists(path) == path # "missing"

(* model.config of the checkpoint at path: a LlamaConfig. *)
PretrainedConfig(path) == [num_hidden_layers |-> 2, hidden_size |-> 3]

(* What the device calls may take, in ticks of the clock time.time()       *)
(* reads: every generate and every synchronize draws its duration from the *)
(* sets the run was started with. A tick is the resolution of the clock: a *)
(* call may take 0 ticks. The default single-worker command line is run on *)
(* devices whose generate calls take either no tick or MaxElapsed ticks,   *)
(* call by call; the other command lines are run on devices whose generate *)
(* calls all take the same time, one device for each of 0..MaxElapsed. The *)
(* synchronize calls of a run all take the same time, one device for each  *)
(* of 0..MaxSync.                                                          *)
Jitter(a) == a.tp_size = 1 /\ a.output_len = 1 /\ PathExists(a.path)

Devices(a) ==
    IF Jitter(a)
    THEN {[generate |-> {0, MaxElapsed}, synchronize |-> {s}] : s \in 0..MaxSync}
    ELSE {[generate |-> {d}, synchronize |-> {s}] : d \in 0..MaxElapsed, s \in 0..MaxSync}

(* How many tokens generate may add to the input: at most max_new_tokens.  *)
(* Decoding is greedy (do_sample=False, line 51) on one fixed input batch  *)
(* (lines 52-55), so every call of a worker returns the same length.       *)
NewTokens(a) == 0..(IF a.output_len > 0 THEN a.output_len ELSE 0)

Worker0 ==
    [rank |-> 0, world_size |-> 0, pc |-> "launch", i |-> 0, times |-> <<>>, start |-> 0, end |-> 0,
     clock |-> 0, outputs |-> 0, new_tokens |-> 0, model_config |-> NoConfig,
     stats |-> NoStats, trace |-> <<>>, error |-> "", at |-> ""]

Ranks == DOMAIN proc

Running(r) ==
    /\ main = "join"
    /\ r \in Ranks
    /\ proc[r].pc \notin {"done", "failed", "killed"}

At(r, pc) == Running(r) /\ proc[r].pc = pc

Emit(w, ev) == [w EXCEPT !.trace = Append(@, ev)]

Goto(w, pc) == [w EXCEPT !.pc = pc]

(* An exception no statement catches ends the worker at the statement     *)
(* that raised it.                                                         *)
Fail(w, err) == [w EXCEPT !.pc = "failed", !.error = err, !.at = w.pc]

(* The worker is terminated from outside, before its next statement. *)
Kill(w) == [w EXCEPT !.pc = "killed", !.at = w.pc]

Step(r, w) ==
    /\ proc' = [proc EXCEPT ![r] = w]
    /\ UNCHANGED <<stats_in, stats_out, args, main, durations, raised>>

(* Mutant: the loop runs once more. *)
LoopHeadOneMore(i) == IF i <= iters THEN "sync1" ELSE "stats"

(* The loop head of line 60, reached with loop counter i. *)
LoopHead(i) == IF i < iters THEN "sync1" ELSE "stats"

(* check_llama, lines 82-83: the distributed launch. *)
Launch(r) ==
    /\ At(r, "launch")
    /\ \E outcome \in {"ok", "AddressInUse", "Error"} :
         /\ Step(r, IF outcome = "ok"
                    THEN Goto(Emit(proc[r], "launch"), "load")
                    ELSE Fail(proc[r], outcome))

(* run_llama_test, lines 37-46: tokenizer and model are loaded. *)
Load(r) ==
    /\ At(r, "load")
    /\ \E outcome \in {"ok", "Error"} :
         /\ outcome = "ok" => PathExists(args.path)
         /\ Step(r, IF outcome = "ok"
                    THEN [Goto(Emit(proc[r], "load"), "engine")
                            EXCEPT !.model_config = PretrainedConfig(args.path)]
                    ELSE Fail(proc[r], outcome))

(* Lines 48-58: the engine is built, the input batch drawn, times = []. *)
Engine(r) ==
    /\ At(r, "engine")
    /\ \/ \E k \in NewTokens(args) :
            Step(r, [Goto(Emit(proc[r], "engine"), LoopHead(0))
                       EXCEPT !.new_tokens = k, !.i = 0, !.times = <<>>])
       \/ Step(r, Fail(proc[r], "Error"))

(* Lines 61, 64, 75, 77: torch.cuda.synchronize(). The call waits for the  *)
(* device, which takes s ticks of the clock, and returns, or it raises     *)
(* (an error of the device surfaces in it).                                *)
Synchronize(r, at, next) ==
    /\ At(r, at)
    /\ \/ \E s \in durations.synchronize :
            Step(r, [Goto(Emit(proc[r], "synchronize"), next) EXCEPT !.clock = @ + s])
       \/ Step(r, Fail(proc[r], "Error"))

(* Mutant: the synchronize after the timed generate is missing. *)
Sync2Missing(r) ==
    /\ At(r, "sync2")
    /\ Step(r, Goto(proc[r], "t_end"))

Sync1(r) == Synchronize(r, "sync1", "t_start")

Sync2(r) == Synchronize(r, "sync2", "t_end")

(* Line 62: start = time.time(). *)
TimeStart(r) ==
    /\ At(r, "t_start")
    /\ Step(r, [Goto(Emit(proc[r], "time"), "generate") EXCEPT !.start = proc[r].clock])

(* Lines 63 and 76: infer_engine.generate(input_tokens, **generate_kwargs). *)
(* The call takes d ticks of the clock and returns input_len + new_tokens   *)
(* columns, or raises.                                                      *)
GenerateCall(r, at, next) ==
    /\ At(r, at)
    /\ \/ \E d \in durations.generate :
            Step(r, [Goto(Emit(proc[r], "generate"), next)
                       EXCEPT !.clock = @ + d,
                              !.outputs = args.input_len + proc[r].new_tokens])
       \/ Step(r, Fail(proc[r], "Error"))

Generate(r) == GenerateCall(r, "generate", "sync2")

(* Line 65: end = time.time(). *)
TimeEnd(r) ==
    /\ At(r, "t_end")
    /\ Step(r, [Goto(Emit(proc[r], "time"), "record") EXCEPT !.end = proc[r].clock])

(* Line 68: the per-token latency of one iteration. *)
Sample(start, end, out_len, max_input_len) ==
    RNorm(end - start, out_len - max_input_len)

(* Lines 66-68: the generation time is printed, the sample appended. *)
Record(r) ==
    /\ At(r, "record")
    /\ LET w == Emit(proc[r], "print_time")
           out_len == proc[r].outputs
       IN  IF out_len - args.input_len = 0
           THEN Step(r, Fail(w, "ZeroDivisionError"))
           ELSE Step(r, [Goto(Emit(w, "append"), LoopHead(proc[r].i + 1))
                           EXCEPT !.i = @ + 1,
                                  !.times = Append(@, Sample(proc[r].start, proc[r].end,
                                                             out_len, args.input_len))])

(* Lines 70-71: print_perf_stats(times, model_config, max_batch_size). *)
Stats(r) ==
    /\ At(r, "stats")
    /\ LET res == print_perf_stats(proc[r].times, proc[r].model_config,
                                   args.batch_size, warmup_default)
           w == [Emit(Emit(proc[r], "print_outputs"), "stats") EXCEPT !.stats = res]
       IN  IF res.status = "returned"
           THEN Step(r, Goto(w, "p_sync1"))
           ELSE Step(r, Fail(w, res.status))

(* Lines 73-77: the profiled iteration. *)
ProfSync1(r) == Synchronize(r, "p_sync1", "p_generate")

ProfGenerate(r) == GenerateCall(r, "p_generate", "p_sync2")

ProfSync2(r) == Synchronize(r, "p_sync2", "table")

(* Line 78: the operator-time table is printed; the worker returns. *)
Table(r) ==
    /\ At(r, "table")
    /\ Step(r, Goto(Emit(proc[r], "table"), "done"))

(* The exception types the rerun decorator restarts the test on. *)
rerun_if_address_is_in_use(exc) == exc = "AddressInUse"

(* Mutants: no rerun decorator; a rerun on every exception. *)
RerunsNever(exc) == FALSE

RerunsAlways(exc) == TRUE

(* Line 87: the decorator applied to test_llama. *)
Reruns(exc) == rerun_if_address_is_in_use(exc)

(* spawn(func, nprocs): one process for each rank below nprocs, each       *)
(* entering func(rank, world_size, port, args) with world_size = nprocs.   *)
SpawnProcs(nprocs) ==
    [r \in 0..(nprocs - 1) |-> [Worker0 EXCEPT !.rank = r, !.world_size = nprocs]]

(* Mutant: a single worker whatever tp_size is. *)
WorldSizeOne(a) == 1

(* Line 90: spawn(check_llama, args.tp_size, args=args). *)
WorldSize(a) == a.tp_size

Spawn ==
    /\ main = "call"
    /\ main' = "join"
    /\ proc' = SpawnProcs(WorldSize(args))
    /\ raised' = ""
    /\ UNCHANGED <<stats_in, stats_out, args, durations>>

(* spawn returns once every worker has returned; test_llama returns and    *)
(* the script ends.                                                        *)
Join ==
    /\ main = "join"
    /\ \A r \in Ranks : proc[r].pc = "done"
    /\ main' = "done"
    /\ UNCHANGED <<stats_in, stats_out, args, durations, raised, proc>>

(* A worker has failed: spawn terminates the workers still running and     *)
(* raises that worker's exception in the parent. The rerun decorator       *)
(* either runs test_llama again or lets the exception leave the script.    *)
JoinFail ==
    /\ main = "join"
    /\ \E r \in Ranks :
         /\ proc[r].pc = "failed"
         /\ raised' = proc[r].error
         /\ IF Reruns(proc[r].error)
            THEN /\ main' = "call"
                 /\ proc' = NoProcs
            ELSE /\ main' = "failed"
                 /\ proc' = [q \in Ranks |->
                               IF proc[q].pc \in {"done", "failed"} THEN proc[q]
                               ELSE Kill(proc[q])]
    /\ UNCHANGED <<stats_in, stats_out, args, durations>>

InitBench ==
    /\ stats_in = NoCall
    /\ stats_out = NoStats
    /\ args \in ArgSpace
    /\ durations \in Devices(args)
    /\ main = "call"
    /\ raised = ""
    /\ proc = NoProcs

Init == InitBench \/ InitStats

Next ==
    \/ CallStats
    \/ Spawn
    \/ \E r \in Ranks : Launch(r)
    \/ \E r \in Ranks : Load(r)
    \/ \E r \in Ranks : Engine(r)
    \/ \E r \in Ranks : Sync1(r)
    \/ \E r \in Ranks : TimeStart(r)
    \/ \E r \in Ranks : Generate(r)
    \/ \E r \in Ranks : Sync2(r)
    \/ \E r \in Ranks : TimeEnd(r)
    \/ \E r \in Ranks : Record(r)
    \/ \E r \in Ranks : Stats(r)
    \/ \E r \in Ranks : ProfSync1(r)
    \/ \E r \in Ranks : ProfGenerate(r)
    \/ \E r \in Ranks : ProfSync2(r)
    \/ \E r \in Ranks : Table(r)
    \/ Join
    \/ JoinFail

Spec == Init /\ [][Next]_vars

-----------------------------------------------------------------------------
(* Properties of print_perf_stats.                                         *)

Called == stats_out.status # "not_called"

(* The samples at positions w, w+1, ... (counted from 0) in arrival order. *)
FromPosition(xs, w) == [j \in 1..(IF Len(xs) > w THEN Len(xs) - w ELSE 0) |-> xs[w + j]]

Occurrences(xs, x) == Cardinality({j \in 1..Len(xs) : xs[j] = x})

SameSamples(xs, ys) ==
    /\ Len(xs) = Len(ys)
    /\ \A j \in 1..Len(xs) : Occurrences(xs, xs[j]) = Occurrences(ys, xs[j])

(* The sum of xs as a fraction over the common denominator 6 of Samples. *)
RECURSIVE SixthsFrom(_, _)
SixthsFrom(xs, k) ==
    IF k > Len(xs) THEN 0 ELSE (xs[k][1] * 6) \div xs[k][2] + SixthsFrom(xs, k + 1)

(* q is the arithmetic mean of the non-empty list xs. *)
IsMeanOf(q, xs) == q[1] * 6 * Len(xs) = SixthsFrom(xs, 1) * q[2]

(* The samples a call is meant to average over: for a warmup below 0 the   *)
(* last -warmup of them, as the slice of line 21 has it.                   *)
Retained ==
    IF stats_in.warmup >= 0 THEN FromPosition(stats_in.latency_set, stats_in.warmup)
    ELSE stats_out.latency_set

StatedLayers(config) ==
    IF "num_layers" \in DOMAIN config THEN config.num_layers
    ELSE config.num_hidden_layers

StatedParameters(config) ==
    StatedLayers(config) * config.hidden_size * config.hidden_size * 12

PrintedStats == Called /\ Len(stats_out.lines) = 3

(* C1: for every list of samples and every warmup w >= 0 the average is    *)
(* taken over exactly the samples at positions w, w+1, ... in arrival      *)
(* order: the first w samples recorded are excluded, whatever their size,  *)
(* and no other; the sort comes after the trim and keeps the same samples. *)
C1_AverageOverSamplesAfterWarmup ==
    (Called /\ stats_in.warmup >= 0) =>
        LET kept == FromPosition(stats_in.latency_set, stats_in.warmup)
        IN  /\ stats_out.count = Len(kept)
            /\ SameSamples(stats_out.latency_set, kept)
            /\ Len(kept) > 0 => IsMeanOf(stats_out.avg, kept)

(* A call that drops a first sample larger than every sample it keeps. *)
C1_Witness ==
    /\ stats_out.status = "returned"
    /\ stats_in.warmup = 1
    /\ stats_in.latency_set = << <<3, 1>>, <<1, 2>>, <<1, 1>> >>
    /\ stats_out.latency_set = << <<1, 2>>, <<1, 1>> >>
    /\ stats_out.avg = <<3, 4>>

(* C2: whenever the statistics are printed, the bandwidth is               *)
(* parameters x bytes / mean latency in units of 1e9, the mean taken over  *)
(* the retained samples, parameters = num_layers * hidden_size^2 * 12 and  *)
(* bytes = 2.                                                              *)
C2_BandwidthFormula ==
    PrintedStats =>
        LET bw == stats_out.lines[2]
            mean == stats_out.avg
        IN  /\ bw.label = "Avg BW"
            /\ bw.exp10 = 9
            /\ IsMeanOf(mean, Retained)
            /\ bw.value[1] * mean[1]
                 = StatedParameters(stats_in.config) * 2 * mean[2] * bw.value[2]

(* One sample of 1/2 and 2 * 3 * 3 * 12 = 216 parameters: 864 / 1e9. *)
C2_Witness ==
    /\ PrintedStats
    /\ stats_in.latency_set = << <<3, 1>>, <<1, 2>> >>
    /\ stats_in.warmup = 1
    /\ stats_in.config = [num_hidden_layers |-> 2, hidden_size |-> 3]
    /\ stats_out.lines[2].value = <<864, 1>>

(* C8: whenever the statistics are printed, the FLOPs estimate is          *)
(* parameters x bytes x bs / mean latency in units of 1e12: the bandwidth  *)
(* times bs, divided by 1000; num_layers is config.num_layers when the     *)
(* config has it and config.num_hidden_layers otherwise.                   *)
C8_FlopsFormula ==
    PrintedStats =>
        LET bw == stats_out.lines[2]
            fl == stats_out.lines[3]
            mean == stats_out.avg
        IN  /\ fl.label = "Avg flops"
            /\ fl.exp10 = bw.exp10 + 3
            /\ fl.value[1] * bw.value[2] = bw.value[1] * stats_in.bs * fl.value[2]
            /\ fl.value[1] * mean[1]
                 = StatedParameters(stats_in.config) * 2 * stats_in.bs
                     * mean[2] * fl.value[2]

(* A config with both attributes, where num_layers = 1 decides. *)
C8_Witness ==
    /\ PrintedStats
    /\ stats_in.config = [num_layers |-> 1, num_hidden_layers |-> 2, hidden_size |-> 3]
    /\ stats_in.bs = 2
    /\ stats_in.latency_set = << <<1, 1>>, <<3, 1>> >>
    /\ stats_in.warmup = 0
    /\ stats_out.lines[3].value = <<216, 1>>

(* C9: with no more samples than warmup (an empty list too) the call       *)
(* prints nothing, returns normally and does not read the config, so the   *)
(* count is never a zero divisor; and a worker that has called             *)
(* print_perf_stats passed it 10 samples, of which 7 are averaged, and a   *)
(* worker that ran without failure has printed the three lines.            *)
C9_NoDivisionByZeroCount ==
    /\ (Called /\ Len(stats_in.latency_set) <= stats_in.warmup) =>
          /\ stats_out.status = "returned"
          /\ stats_out.lines = <<>>
          /\ ~stats_out.config_read
    /\ (Called /\ stats_out.count = 0) =>
          /\ stats_out.status = "returned"
          /\ stats_out.lines = <<>>
    /\ \A r \in Ranks :
          /\ proc[r].stats.status # "not_called" =>
                /\ Len(proc[r].times) = 10
                /\ proc[r].stats.count = 7
          /\ proc[r].pc = "done" =>
                /\ proc[r].stats.status = "returned"
                /\ Len(proc[r].stats.lines) = 3

(* Two samples, warmup 3, and a config that has no hidden_size. *)
C9_Witness ==
    /\ stats_out.status = "returned"
    /\ Len(stats_in.latency_set) = 2
    /\ stats_in.warmup = 3
    /\ stats_in.config = [num_hidden_layers |-> 2]
    /\ stats_out.lines = <<>>

-----------------------------------------------------------------------------
(* Properties of the benchmark run. A worker's trace lists what it has     *)
(* done so far, and every prefix of it was its trace in an earlier state:  *)
(* a property of the last events of every reachable trace is a property    *)
(* of every position of every trace.                                       *)

Last(t, k) == IF Len(t) > k THEN t[Len(t) - k] ELSE "none"

(* The statement a worker is at: the one it runs next, the one that raised *)
(* when it has failed, the one it was terminated before.                   *)
Position(w) == IF w.pc \in {"failed", "killed"} THEN w.at ELSE w.pc

(* C3: every generate call that returns, timed or profiled, comes right    *)
(* after a synchronize and has a synchronize as the very next statement    *)
(* (which may raise, or before which the worker may be terminated); the    *)
(* start time of a timed call is read between the synchronize before it    *)
(* and the call, its end time after the synchronize that follows the call, *)
(* so that end - start is the time of the call and of that synchronize.    *)
C3_GenerateBetweenSynchronizes ==
    \A r \in Ranks :
        LET w == proc[r]
            t == w.trace
            timed == w.stats.status = "not_called"
        IN  /\ Position(w) \in {"generate", "p_generate"} =>
                IF timed
                THEN Last(t, 0) = "time" /\ Last(t, 1) = "synchronize"
                ELSE Last(t, 0) = "synchronize"
            /\ Last(t, 0) = "generate" =>
                /\ IF timed
                   THEN Last(t, 1) = "time" /\ Last(t, 2) = "synchronize"
                   ELSE Last(t, 1) = "synchronize"
                /\ Position(w) = (IF timed THEN "sync2" ELSE "p_sync2")
            /\ Last(t, 1) = "generate" =>
                /\ Last(t, 0) = "synchronize"
                /\ Position(w) = (IF timed THEN "t_end" ELSE "table")
            /\ (Last(t, 2) = "generate" /\ timed) =>
                /\ Last(t, 0) = "time"
                /\ Last(t, 1) = "synchronize"
                /\ Position(w) = "record"
                /\ \E d \in durations.generate, s \in durations.synchronize :
                      w.end - w.start = d + s

(* A worker of a two-worker run has read the end time of a timed call      *)
(* after a synchronize of one tick that followed a generate of one tick.   *)
C3_Witness ==
    /\ args.tp_size = 2
    /\ durations = [generate |-> {1}, synchronize |-> {1}]
    /\ \E r \in Ranks :
          /\ proc[r].pc = "record"
          /\ proc[r].i = 4
          /\ Last(proc[r].trace, 2) = "generate"
          /\ Last(proc[r].trace, 4) = "synchronize"
          /\ proc[r].end - proc[r].start = 2
          /\ proc[r].start = 13

Iteration == <<"synchronize", "time", "generate", "synchronize", "time",
               "print_time", "append">>

RECURSIVE Times(_, _)
Times(n, t) == IF n = 0 THEN <<>> ELSE t \o Times(n - 1, t)

Count(t, ev) == Cardinality({j \in 1..Len(t) : t[j] = ev})

(* What a worker that runs without failure does, from launch to return. *)
WholeRun ==
    <<"launch", "load", "engine">> \o Times(10, Iteration)
        \o <<"print_outputs", "stats", "synchronize", "generate", "synchronize", "table">>

(* C4: a run of run_llama_test that does not fail calls generate 11 times: *)
(* 10 timed iterations whatever the command line, then the statistics over *)
(* the 10 samples, then one profiled call, then the table; the profiled    *)
(* call adds no sample.                                                    *)
C4_TenTimedThenStatsThenProfiled ==
    \A r \in Ranks :
        /\ proc[r].pc = "done" =>
              /\ proc[r].trace = WholeRun
              /\ Count(proc[r].trace, "generate") = 11
              /\ Len(proc[r].times) = 10
              /\ proc[r].stats.count + warmup_default = 10
        /\ proc[r].pc \in {"p_sync1", "p_generate", "p_sync2", "table"} =>
              /\ Len(proc[r].times) = 10
              /\ proc[r].stats.status = "returned"
              /\ Count(proc[r].trace, "append") = 10

(* A single worker, with output_len = 2, has returned. *)
C4_Witness ==
    /\ args.output_len = 2
    /\ Ranks = {0}
    /\ proc[0].pc = "done"
    /\ main = "join"

(* C5: test_llama spawns tp_size workers, ranks 0..tp_size-1 with world    *)
(* size tp_size, and returns only when every worker has returned; a worker *)
(* launches before anything else and then runs the same routine as every   *)
(* other, so that in a run without failure all workers have done the same. *)
C5_SpawnsTpSizeWorkers ==
    /\ main \in {"join", "done", "failed"} =>
          /\ Ranks = 0..(args.tp_size - 1)
          /\ \A r \in Ranks : proc[r].rank = r /\ proc[r].world_size = args.tp_size
    /\ main = "done" => \A r \in Ranks : proc[r].pc = "done"
    /\ \A r \in Ranks :
          /\ proc[r].trace # <<>> => proc[r].trace[1] = "launch"
          /\ proc[r].pc \notin {"launch", "failed", "killed"} => proc[r].trace # <<>>
    /\ \A r, q \in Ranks :
          (proc[r].pc = "done" /\ proc[q].pc = "done") => proc[r].trace = proc[q].trace

(* test_llama has returned from a run of two workers. *)
C5_Witness ==
    /\ main = "done"
    /\ Ranks = {0, 1}
    /\ Count(proc[0].trace, "generate") = 11
    /\ Count(proc[1].trace, "generate") = 11

(* C6: when the attempt ends with address-already-in-use, test_llama is    *)
(* run again from its beginning: no worker is kept, all tp_size workers    *)
(* are spawned afresh at the launch with no sample; nothing else is        *)
(* retried: an attempt is restarted on no other exception, and a worker    *)
(* that has failed or returned does nothing more.                          *)
C6_Step ==
    /\ (main = "join" /\ main' # "join" /\ raised' = "AddressInUse") =>
          (main' = "call" /\ proc' = NoProcs)
    /\ (main = "join" /\ main' = "call") => raised' = "AddressInUse"
    /\ (main = "call" /\ main' # "call") =>
          /\ main' = "join"
          /\ DOMAIN proc' = 0..(args.tp_size - 1)
          /\ \A r \in DOMAIN proc' :
                /\ proc'[r].pc = "launch"
                /\ proc'[r].times = <<>>
                /\ proc'[r].trace = <<>>
    /\ \A r \in Ranks :
          (proc[r].pc \in {"failed", "done"} /\ r \in DOMAIN proc') => proc'[r] = proc[r]

C6_RerunOnAddressInUse == [][C6_Step]_vars

(* Two workers were running, the address was in use, test_llama is about   *)
(* to be run again.                                                        *)
C6_Witness ==
    /\ main = "call"
    /\ raised = "AddressInUse"
    /\ proc = NoProcs
    /\ args.tp_size = 2

(* C7: an attempt that ends with any other exception is not run again:     *)
(* the exception leaves the script, which stops there; a worker that has   *)
(* failed does nothing more, so one that failed before the statistics has  *)
(* printed none, and one that failed in print_perf_stats has not printed   *)
(* all three lines.                                                        *)
C7_Step ==
    /\ (main = "join" /\ main' # "join" /\ raised' \notin {"", "AddressInUse"}) =>
          main' = "failed"
    /\ main = "failed" => UNCHANGED vars
    /\ \A r \in Ranks :
          (proc[r].pc = "failed" /\ r \in DOMAIN proc') =>
              /\ proc'[r].trace = proc[r].trace
              /\ proc'[r].stats = proc[r].stats
              /\ proc'[r].pc = "failed"
    /\ \A r \in DOMAIN proc' :
          proc'[r].pc = "failed" =>
              /\ Count(proc'[r].trace, "stats") = 0 => proc'[r].stats.lines = <<>>
              /\ proc'[r].error \in {"ZeroDivisionError", "AttributeError"}
                    /\ Count(proc'[r].trace, "stats") = 1
                    => Len(proc'[r].stats.lines) < 3

C7_OtherFailuresPropagate == [][C7_Step]_vars

(* A generate call of one of two workers raised in its fourth iteration;   *)
(* the script has stopped with that exception.                             *)
C7_Witness ==
    /\ main = "failed"
    /\ raised = "Error"
    /\ \E r \in Ranks :
          /\ proc[r].pc = "failed"
          /\ proc[r].i = 3
          /\ Last(proc[r].trace, 0) = "time"
          /\ proc[r].stats.lines = <<>>
    /\ \E r \in Ranks : proc[r].pc = "killed"

====
